---- MODULE Spec2Model ----
(***************************************************************************)
(* Model of pairwise_iterator.h (namespace PairwiseIterator): the two      *)
(* iterator views internal_pairs and cartesian_product, driven by the      *)
(* inequality-controlled loop of a range-based for statement.              *)
(*                                                                         *)
(* An underlying container iterator is modelled by its offset from         *)
(* begin(): 0..n-1 are the elements, n is end().  Element k of a sequence  *)
(* is vec[k + 1].                                                          *)
(***************************************************************************)
EXTENDS Integers, Sequences, FiniteSets

VARIABLES tc,      \* the adaptor under iteration: "internal_pairs" or "cartesian_product"
          algo,    \* the code run over it: "for" (range-based for), "distance"
                   \* (std::distance), "accumulate" (std::accumulate) or "advance"
                   \* (straight-line std::next / std::advance on held positions)
          vec,     \* the sequence wrapped by internal_pairs (T &vec)
          kind,    \* the container type T of vec
          Const,   \* std::is_const<T>::value
          it,      \* the internal_pairs::iterator being advanced
          vec1,    \* first sequence handed to cartesian_product
          vec2,    \* second sequence handed to cartesian_product
          prod,    \* the cartesian_product object: its members _begin and _end
          cit,     \* the cartesian_product::iterator being advanced
          pc,      \* position of the loop: "test", "body", "view", "inc", "done", "ub"
          steps,   \* number of operator++ calls made on the iterator since begin()
          view,    \* the tuple of references last returned by operator*, <<>> if none
          yielded, \* the locator pairs dereferenced so far, in order
          val,     \* <<c, v>>: v was assigned through component c of view; <<>> if none
          sz,      \* <<r>>: the value last returned by size(); <<>> if not called
          it2,     \* a second held internal_pairs::iterator
          cit2,    \* a second held cartesian_product::iterator
          steps2,  \* number of operator++ calls that separate the second position from begin()
          last,    \* the last straight-line operation, <<>> if none
          begin0,  \* the positions returned by the first begin() call on each adaptor
          acc      \* the running value of the fold

vars == <<tc, algo, vec, kind, Const, it, vec1, vec2, prod, cit, pc, steps, view,
          yielded, val, sz, it2, cit2, steps2, last, begin0, acc>>

\* the second held position, the straight-line history and the fold value
held == <<it2, cit2, steps2, last, begin0, acc>>

----------------------------------------------------------------------------
(* Bounds *)

MaxLen == 4        \* longest sequence wrapped by internal_pairs
MaxLen1 == 3       \* longest first sequence of cartesian_product
MaxLen2 == 2       \* longest second sequence of cartesian_product
SizeBits == 8      \* width of size_t, scaled down

MaxSteps == 16     \* cap on the operator++ calls of one enumeration
MaxAdv == 3        \* largest distance handed to std::advance

Vals == {0, 1}     \* element values

Kinds == {"vector", "list", "array"}

SeqsUpTo(n) == UNION {[1..k -> Vals] : k \in 0..n}

----------------------------------------------------------------------------
(* Integer and iterator primitives *)

RECURSIVE Pow2(_)
Pow2(w) == IF w = 0 THEN 1 ELSE 2 * Pow2(w - 1)

\* conversion to size_t: reduction modulo 2^w
SizeT(x) == x % Pow2(SizeBits)

\* std::next on an iterator of a container of kind K with n elements.
\* Incrementing end() is undefined: a contiguous container yields the next
\* address, a circular doubly-linked list yields the node after the sentinel.
std_next(K, n, p) == IF K = "list" THEN (p + 1) % (n + 1) ELSE p + 1

\* std::prev; decrementing begin() is undefined in the same way.
std_prev(K, n, p) == IF K = "list" THEN (p + n) % (n + 1) ELSE p - 1

\* an iterator that refers to an element
Dereferenceable(n, p) == 0 <= p /\ p < n

----------------------------------------------------------------------------
(* internal_pairs *)

\* internal_pairs::iterator::iterator(end, i, j)
ip_iterator(e, i, j) == [_end |-> e, i |-> i, j |-> j]

\* internal_pairs::begin(), both overloads
ip_begin(K, n) == ip_iterator(n, 0, std_next(K, n, 0))

\* internal_pairs::end(), both overloads
ip_end(K, n) == ip_iterator(n, std_prev(K, n, n), n)

\* internal_pairs::iterator::operator*: the tuple of references {*i, *j}
ip_deref(p) == <<p.i, p.j>>

\* assignment to a tuple component that holds a copy of the element
write_to_copy(s, k, v) == s

\* assignment through a tuple component of type reference: element k of s
write_through(s, k, v) == [s EXCEPT ![k + 1] = v]

\* operator!= with "and" in place of "or"
ip_neq_and(a, b) == (a.i # b.i) /\ (a.j # b.j)

\* operator!= comparing the j-locator alone
ip_neq_j_only(a, b) == a.j # b.j

\* internal_pairs::iterator::operator!=
ip_neq(a, b) == (a.i # b.i) \/ (a.j # b.j)

\* operator++ restarting every row at the first element
ip_incr_from_begin(K, n, p) ==
    LET j1 == std_next(K, n, p.j) IN
    IF j1 = p._end
    THEN [p EXCEPT !.i = std_next(K, n, p.i), !.j = 0]
    ELSE [p EXCEPT !.j = j1]

\* operator++ with the std::next of the reset left out
ip_incr_no_next(K, n, p) ==
    LET j1 == std_next(K, n, p.j) IN
    IF j1 = p._end
    THEN LET i1 == std_next(K, n, p.i) IN [p EXCEPT !.i = i1, !.j = i1]
    ELSE [p EXCEPT !.j = j1]

\* internal_pairs::iterator::operator++
ip_incr(K, n, p) ==
    LET j1 == std_next(K, n, p.j) IN
    IF j1 = p._end
    THEN LET i1 == std_next(K, n, p.i) IN
         [p EXCEPT !.i = i1, !.j = std_next(K, n, i1)]
    ELSE [p EXCEPT !.j = j1]

\* std::advance(p, k) / std::next(p, k) on a forward iterator: k times ++p
RECURSIVE ip_advance(_, _, _, _)
ip_advance(K, n, p, k) ==
    IF k = 0 THEN p ELSE ip_advance(K, n, ip_incr(K, n, p), k - 1)

\* size() with n + 1 in place of n - 1
ip_size_plus(n) == SizeT(SizeT(n) * SizeT(SizeT(n) + 1)) \div 2

\* internal_pairs::size(): vec.size() * (vec.size() - 1) / 2 in size_t
ip_size(n) == SizeT(SizeT(n) * SizeT(SizeT(n) - 1)) \div 2

----------------------------------------------------------------------------
(* cartesian_product *)

\* cartesian_product::iterator::iterator(first1, last1, first2, last2)
cp_iterator(first1, last1, first2, last2) ==
    [pos1 |-> first1, last1 |-> last1,
     pos2 |-> first2, first2 |-> first2, last2 |-> last2]

\* cartesian_product::iterator::operator*: the tuple {*pos1, *pos2}
cp_deref(p) == <<p.pos1, p.pos2>>

\* cartesian_product::iterator::operator!=
cp_neq(a, b) == (a.pos1 # b.pos1) \/ (a.pos2 # b.pos2)

\* operator++ that never rewinds pos2 to first2
cp_incr_no_reset(p) ==
    LET a == [p EXCEPT !.pos2 = p.pos2 + 1] IN
    IF a.pos2 = a.last2
    THEN [a EXCEPT !.pos1 = a.pos1 + 1]
    ELSE a

\* operator++ that never forces pos2 to last2
cp_incr_no_force(p) ==
    LET a == [p EXCEPT !.pos2 = p.pos2 + 1] IN
    IF a.pos2 = a.last2
    THEN [a EXCEPT !.pos2 = a.first2, !.pos1 = a.pos1 + 1]
    ELSE a

\* cartesian_product::iterator::operator++
cp_incr(p) ==
    LET a == [p EXCEPT !.pos2 = p.pos2 + 1] IN
    IF a.pos2 = a.last2
    THEN LET b == [a EXCEPT !.pos2 = a.first2, !.pos1 = a.pos1 + 1] IN
         IF b.pos1 = b.last1 THEN [b EXCEPT !.pos2 = b.last2] ELSE b
    ELSE a

\* std::advance(p, k) / std::next(p, k) on a forward iterator: k times ++p
RECURSIVE cp_advance(_, _)
cp_advance(p, k) == IF k = 0 THEN p ELSE cp_advance(cp_incr(p), k - 1)

\* size() with a sum in place of the product
cp_size_sum(b) == SizeT((b.last1 - b.pos1) + (b.last2 - b.first2))

\* cartesian_product::size(), from the stored _begin
cp_size(b) == SizeT((b.last1 - b.pos1) * (b.last2 - b.first2))

\* constructor without the empty-product guard
cp_construct_no_guard(n1, n2) ==
    [_begin |-> cp_iterator(0, n1, 0, n2), _end |-> cp_iterator(n1, n1, n2, n2)]

\* cartesian_product::cartesian_product(first1, last1, first2, last2)
cp_construct(n1, n2) ==
    LET b == cp_iterator(0, n1, 0, n2)
        e == cp_iterator(n1, n1, n2, n2)
    IN  IF cp_size(b) = 0 THEN [_begin |-> e, _end |-> e]
                          ELSE [_begin |-> b, _end |-> e]

\* begin() handing out the stored _begin itself, so that ++ on the returned
\* position advances the member
cp_stored_aliased(P, p) == [P EXCEPT !._begin = cp_incr(p)]

\* the members of the adaptor after ++ on a position p obtained from it:
\* begin() and end() return copies, the members are left alone
cp_stored_after_incr(P, p) == P

\* cartesian_product::begin()
cp_begin(P) == P._begin

\* the binary operation of the fold: sum + std::get<1>(pair)
fold_op(sum, pair) == sum + pair[2]

----------------------------------------------------------------------------
(* State machine: construction, then  for (it = begin(); it != end(); ++it) *)

n == Len(vec)
n1 == Len(vec1)
n2 == Len(vec2)

Init ==
    /\ tc \in {"internal_pairs", "cartesian_product"}
    /\ algo \in IF tc = "internal_pairs"
               THEN {"for", "distance", "advance"}
               ELSE {"for", "distance", "advance", "accumulate"}
    /\ IF tc = "internal_pairs"
       THEN /\ vec \in SeqsUpTo(MaxLen)
            /\ kind \in Kinds
            /\ Const \in BOOLEAN
            /\ vec1 = <<>>
            /\ vec2 = <<>>
       ELSE /\ vec = <<>>
            /\ kind = "list"
            /\ Const = TRUE
            /\ vec1 \in SeqsUpTo(MaxLen1)
            /\ vec2 \in SeqsUpTo(MaxLen2)
    /\ it = ip_begin(kind, Len(vec))
    /\ prod = cp_construct(Len(vec1), Len(vec2))
    /\ cit = cp_begin(prod)
    /\ pc = "test"
    /\ steps = 0
    /\ view = <<>>
    /\ yielded = <<>>
    /\ val = <<>>
    /\ sz = <<>>
    /\ it2 = it
    /\ cit2 = cit
    /\ steps2 = 0
    /\ last = <<>>
    /\ begin0 = [ip |-> it, cp |-> cit]
    /\ acc = 0

\* the loop condition it != pairs.end()
IPCompare ==
    /\ tc = "internal_pairs"
    /\ algo # "advance"
    /\ pc = "test"
    /\ pc' = IF ip_neq(it, ip_end(kind, n)) THEN "body" ELSE "done"
    /\ UNCHANGED <<held, tc, algo, vec, kind, Const, it, vec1, vec2, prod, cit, steps,
                   view, yielded, val, sz>>

\* auto [i, j] = *it; undefined when a locator is not on an element
IPDeref ==
    /\ tc = "internal_pairs"
    /\ algo = "for"
    /\ pc = "body"
    /\ IF Dereferenceable(n, it.i) /\ Dereferenceable(n, it.j)
       THEN /\ view' = ip_deref(it)
            /\ yielded' = Append(yielded, ip_deref(it))
            /\ pc' = "view"
       ELSE /\ pc' = "ub"
            /\ UNCHANGED <<view, yielded>>
    /\ UNCHANGED <<held, tc, algo, vec, kind, Const, it, vec1, vec2, prod, cit, steps,
                   val, sz>>

\* i = v or j = v on the tuple of a non-const view
IPAssign(c, v) ==
    /\ tc = "internal_pairs"
    /\ pc = "view"
    /\ ~Const
    /\ vec' = write_through(vec, view[c], v)
    /\ val' = <<c, v>>
    /\ pc' = "inc"
    /\ UNCHANGED <<held, tc, algo, kind, Const, it, vec1, vec2, prod, cit, steps, view,
                   yielded, sz>>

\* ++it
IPAdvance ==
    /\ tc = "internal_pairs"
    /\ \/ algo = "for" /\ pc \in {"view", "inc"}
       \/ algo = "distance" /\ pc = "body"
    /\ steps < MaxSteps
    /\ it' = ip_incr(kind, n, it)
    /\ steps' = steps + 1
    /\ pc' = "test"
    /\ view' = <<>>
    /\ val' = <<>>
    /\ UNCHANGED <<held, tc, algo, vec, kind, Const, vec1, vec2, prod, cit, yielded, sz>>

\* pairs.size(), called by the loops' test cases
IPSize ==
    /\ tc = "internal_pairs"
    /\ algo # "advance"
    /\ sz' = <<ip_size(n)>>
    /\ UNCHANGED <<held, tc, algo, vec, kind, Const, it, vec1, vec2, prod, cit, pc, steps,
                   view, yielded, val>>

\* the loop condition it != pairs.end()
CPCompare ==
    /\ tc = "cartesian_product"
    /\ algo # "advance"
    /\ pc = "test"
    /\ pc' = IF cp_neq(cit, prod._end) THEN "body" ELSE "done"
    /\ UNCHANGED <<held, tc, algo, vec, kind, Const, it, vec1, vec2, prod, cit, steps,
                   view, yielded, val, sz>>

\* auto [i, j] = *it, or init = op(init, *first) inside std::accumulate;
\* undefined when a locator is not on an element
CPDeref ==
    /\ tc = "cartesian_product"
    /\ algo \in {"for", "accumulate"}
    /\ pc = "body"
    /\ IF Dereferenceable(n1, cit.pos1) /\ Dereferenceable(n2, cit.pos2)
       THEN /\ view' = cp_deref(cit)
            /\ yielded' = Append(yielded, cp_deref(cit))
            /\ acc' = IF algo = "accumulate"
                      THEN fold_op(acc, <<vec1[cit.pos1 + 1], vec2[cit.pos2 + 1]>>)
                      ELSE acc
            /\ pc' = "view"
       ELSE /\ pc' = "ub"
            /\ UNCHANGED <<view, yielded, acc>>
    /\ UNCHANGED <<it2, cit2, steps2, last, begin0, tc, algo, vec, kind, Const, it,
                   vec1, vec2, prod, cit, steps, val, sz>>

\* ++it
CPAdvance ==
    /\ tc = "cartesian_product"
    /\ \/ algo \in {"for", "accumulate"} /\ pc = "view"
       \/ algo = "distance" /\ pc = "body"
    /\ steps < MaxSteps
    /\ cit' = cp_incr(cit)
    /\ prod' = cp_stored_after_incr(prod, cit)
    /\ steps' = steps + 1
    /\ pc' = "test"
    /\ view' = <<>>
    /\ UNCHANGED <<held, tc, algo, vec, kind, Const, it, vec1, vec2, yielded, val, sz>>

\* pairs.size(), called by the loops' test cases
CPSize ==
    /\ tc = "cartesian_product"
    /\ algo # "advance"
    /\ sz' = <<cp_size(prod._begin)>>
    /\ UNCHANGED <<held, tc, algo, vec, kind, Const, it, vec1, vec2, prod, cit, pc, steps,
                   view, yielded, val>>

\* the variables no straight-line operation touches
loop_vars == <<tc, algo, vec, kind, Const, vec1, vec2, pc, view, yielded, val, sz,
               begin0, acc>>

\* std::advance(it, k); it = std::next(it) is the case k = 1
IPAdvanceBy(k) ==
    /\ tc = "internal_pairs"
    /\ algo = "advance"
    /\ steps + k <= ip_size(n)
    /\ it' = ip_advance(kind, n, it, k)
    /\ steps' = steps + k
    /\ last' = <<"advance", k>>
    /\ UNCHANGED <<loop_vars, prod, cit, it2, cit2, steps2>>

\* auto other = pairs.begin()
IPBegin ==
    /\ tc = "internal_pairs"
    /\ algo = "advance"
    /\ it2' = ip_begin(kind, n)
    /\ steps2' = 0
    /\ last' = <<"begin">>
    /\ UNCHANGED <<loop_vars, prod, it, cit, cit2, steps>>

\* auto other = it
IPCopy ==
    /\ tc = "internal_pairs"
    /\ algo = "advance"
    /\ it2' = it
    /\ steps2' = steps
    /\ last' = <<"copy">>
    /\ UNCHANGED <<loop_vars, prod, it, cit, cit2, steps>>

\* ++other
IPAdvance2 ==
    /\ tc = "internal_pairs"
    /\ algo = "advance"
    /\ steps2 < ip_size(n)
    /\ it2' = ip_incr(kind, n, it2)
    /\ steps2' = steps2 + 1
    /\ last' = <<"incr2">>
    /\ UNCHANGED <<loop_vars, prod, it, cit, cit2, steps>>

\* std::advance(it, k); it = std::next(it) is the case k = 1
CPAdvanceBy(k) ==
    /\ tc = "cartesian_product"
    /\ algo = "advance"
    /\ steps + k <= cp_size(prod._begin)
    /\ cit' = cp_advance(cit, k)
    /\ prod' = cp_stored_after_incr(prod, cp_advance(cit, k - 1))
    /\ steps' = steps + k
    /\ last' = <<"advance", k>>
    /\ UNCHANGED <<loop_vars, it, it2, cit2, steps2>>

\* auto other = pairs.begin()
CPBegin ==
    /\ tc = "cartesian_product"
    /\ algo = "advance"
    /\ cit2' = cp_begin(prod)
    /\ steps2' = 0
    /\ last' = <<"begin">>
    /\ UNCHANGED <<loop_vars, prod, it, cit, it2, steps>>

\* auto other = it
CPCopy ==
    /\ tc = "cartesian_product"
    /\ algo = "advance"
    /\ cit2' = cit
    /\ steps2' = steps
    /\ last' = <<"copy">>
    /\ UNCHANGED <<loop_vars, prod, it, cit, it2, steps>>

\* ++other
CPAdvance2 ==
    /\ tc = "cartesian_product"
    /\ algo = "advance"
    /\ steps2 < cp_size(prod._begin)
    /\ cit2' = cp_incr(cit2)
    /\ prod' = cp_stored_after_incr(prod, cit2)
    /\ steps2' = steps2 + 1
    /\ last' = <<"incr2">>
    /\ UNCHANGED <<loop_vars, it, cit, it2, steps>>

Next ==
    \/ IPCompare
    \/ IPDeref
    \/ \E c \in {1, 2}, v \in Vals : IPAssign(c, v)
    \/ IPAdvance
    \/ IPSize
    \/ CPCompare
    \/ CPDeref
    \/ CPAdvance
    \/ CPSize
    \/ \E k \in 1..MaxAdv : IPAdvanceBy(k)
    \/ IPBegin
    \/ IPCopy
    \/ IPAdvance2
    \/ \E k \in 1..MaxAdv : CPAdvanceBy(k)
    \/ CPBegin
    \/ CPCopy
    \/ CPAdvance2

Spec == Init /\ [][Next]_vars

\* std::accumulate(pairs.begin(), pairs.end(), 0, op) run on its own; the
\* single-threaded loop takes its next step whenever it has one
InitFold == Init /\ tc = "cartesian_product" /\ algo = "accumulate"

NextFold == CPCompare \/ CPDeref \/ CPAdvance

FoldSpec == InitFold /\ [][NextFold]_vars /\ WF_vars(NextFold)

\* the lengths n whose n(n-1)/2 a size_t can hold
SizeLens == {m \in 0..Pow2(SizeBits) : (m * (m - 1)) \div 2 < Pow2(SizeBits)}

\* pairs.size() on sequences of every such length
InitSize ==
    /\ tc = "internal_pairs"
    /\ algo = "for"
    /\ vec \in {[k \in 1..m |-> 0] : m \in SizeLens}
    /\ kind \in Kinds
    /\ Const \in BOOLEAN
    /\ vec1 = <<>>
    /\ vec2 = <<>>
    /\ it = ip_begin(kind, Len(vec))
    /\ prod = cp_construct(Len(vec1), Len(vec2))
    /\ cit = cp_begin(prod)
    /\ pc = "test"
    /\ steps = 0
    /\ view = <<>>
    /\ yielded = <<>>
    /\ val = <<>>
    /\ sz = <<>>
    /\ it2 = it
    /\ cit2 = cit
    /\ steps2 = 0
    /\ last = <<>>
    /\ begin0 = [ip |-> it, cp |-> cit]
    /\ acc = 0

NextSize == IPSize

SizeSpec == InitSize /\ [][NextSize]_vars

----------------------------------------------------------------------------
(* Reference notions the properties are stated against *)

IP == tc = "internal_pairs"
CP == tc = "cartesian_product"

\* number of unordered pairs of m elements
TriCount(m) == (m * (m - 1)) \div 2

\* the pairs (a, b), a < b, of m elements and their row-major order
TriPairs(m) == {p \in (0..m-1) \X (0..m-1) : p[1] < p[2]}
Before(p, q) == p[1] < q[1] \/ (p[1] = q[1] /\ p[2] < q[2])
TriPair(m, k) ==
    CHOOSE p \in TriPairs(m) : Cardinality({q \in TriPairs(m) : Before(q, p)}) = k

ip_at_end == ~ip_neq(it, ip_end(kind, n))
cp_at_end == ~cp_neq(cit, prod._end)

----------------------------------------------------------------------------
(* Properties *)

\* C1: for n >= 2, after k < n(n-1)/2 unit advances from begin() the
\* position dereferences to the k-th pair of the row-major triangular order
\* (0,1),(0,2),...,(0,n-1),(1,2),...,(n-2,n-1).
C1_PairsOrder ==
    (IP /\ n >= 2 /\ steps < TriCount(n)) =>
        /\ ip_deref(it) = TriPair(n, steps)
        /\ (view # <<>> => view = TriPair(n, steps))
        /\ (steps = 0 => ip_deref(it) = <<0, 1>>)
        /\ (steps = TriCount(n) - 1 => ip_deref(it) = <<n - 2, n - 1>>)

C1_Witness ==
    IP /\ n = 4 /\ steps = 3 /\ pc = "view" /\ view = <<1, 2>>

\* C2: for every n >= 0 a position advanced from begin() equals end()
\* exactly when it has been advanced size() times.
C2_PairsSentinel ==
    IP => (ip_at_end <=> steps = ip_size(n))

\* C3: for n in {0, 1} begin() equals end(), and the loop body never runs.
C3_PairsShortEmpty ==
    (IP /\ n <= 1) =>
        /\ ~ip_neq(ip_begin(kind, n), ip_end(kind, n))
        /\ pc \in {"test", "done"}
        /\ yielded = <<>>

\* C4: for n1, n2 >= 1, after k < n1*n2 unit advances from begin() the
\* position dereferences to (element k div n2 of sequence 1, element
\* k mod n2 of sequence 2).
C4_ProductOrder ==
    (CP /\ n1 >= 1 /\ n2 >= 1 /\ steps < n1 * n2) =>
        /\ cp_deref(cit) = <<steps \div n2, steps % n2>>
        /\ (view # <<>> => view = <<steps \div n2, steps % n2>>)

C4_Witness ==
    CP /\ n1 = 3 /\ n2 = 2 /\ steps = 4 /\ pc = "view" /\ view = <<2, 0>>

\* C5: for all n1, n2 >= 0 a position advanced from begin() equals end()
\* (both pos1 = last1 and pos2 = last2) exactly when it has been advanced
\* n1*n2 times.
C5_ProductSentinel ==
    CP => /\ cp_at_end <=> steps = n1 * n2
          /\ cp_at_end <=> (cit.pos1 = cit.last1 /\ cit.pos2 = cit.last2)

C5_Witness ==
    CP /\ n1 = 3 /\ n2 = 2 /\ steps = 6 /\ pc = "done"

\* C6: if either sequence is empty, begin() equals end() after construction
\* and the loop body never runs.
C6_ProductEmptyGuard ==
    (CP /\ (n1 = 0 \/ n2 = 0)) =>
        /\ ~cp_neq(prod._begin, prod._end)
        /\ pc \in {"test", "done"}
        /\ steps = 0
        /\ yielded = <<>>

C6_Witness ==
    CP /\ algo = "for" /\ n1 = 2 /\ n2 = 0 /\ pc = "done"

\* C7: internal_pairs::size() returns n(n-1)/2 for every length n >= 0.
C7_PairsSize ==
    (IP /\ sz # <<>>) => sz[1] = TriCount(n)

C7_Witness ==
    IP /\ n = 0 /\ sz = <<0>>

\* C8: cartesian_product::size() returns n1*n2, also after the constructor
\* has overwritten the stored begin position with the end position.
C8_ProductSize ==
    (CP /\ sz # <<>>) => sz[1] = n1 * n2

C8_Witness ==
    CP /\ n1 = 0 /\ n2 = 2 /\ prod._begin = prod._end /\ sz = <<0>>

\* C9: assigning v through the first component of the pair-view of the
\* position (i, j) of a non-const view sets element i of the sequence to v
\* and changes no other element.
C9_WriteThrough ==
    [][(IP /\ pc = "view" /\ pc' = "inc" /\ val'[1] = 1) =>
            vec' = [vec EXCEPT ![it.i + 1] = val'[2]]]_vars

C9_Witness ==
    /\ IP /\ ~Const /\ n = 4 /\ steps = 3 /\ pc = "inc"
    /\ val = <<1, 1>> /\ vec[2] = 1

\* C10: every position reached by fewer than size() advances has
\* 0 <= i < j < n, and no unordered pair is yielded twice.
C10_PairsUnique ==
    IP => /\ steps < TriCount(n) => (0 <= it.i /\ it.i < it.j /\ it.j < n)
          /\ \A a \in DOMAIN yielded : yielded[a][1] # yielded[a][2]
          /\ \A a, b \in DOMAIN yielded :
                a # b => {yielded[a][1], yielded[a][2]} #
                         {yielded[b][1], yielded[b][2]}

C10_Witness ==
    IP /\ n = 4 /\ Len(yielded) = 6 /\ pc = "done"

----------------------------------------------------------------------------
(* Positions by enumeration index, stated without operator++ *)

\* the row-major triangular order of every length, tabulated
TriTable ==
    [m \in 0..MaxLen |-> [k \in 0..(TriCount(m) - 1) |-> TriPair(m, k)]]

\* locators of the position at index m of internal_pairs: index 0 is
\* begin(); for n >= 2 the index n(n-1)/2 is one step past (n-2, n-1)
ip_loc(m) ==
    IF n < 2 THEN ip_deref(begin0.ip)
    ELSE IF m < TriCount(n) THEN TriTable[n][m] ELSE <<n - 1, n>>

\* locators of the position at index m of cartesian_product
cp_loc(m) ==
    IF m < n1 * n2 THEN <<m \div n2, m % n2>> ELSE <<n1, n2>>

\* C11: from the position at index m, std::advance by k (m + k <= size())
\* lands on the position at index m + k, for both adaptors; advancing by a
\* and then by b equals advancing by a + b.
C11_AdvanceComposes ==
    /\ (IP /\ steps <= TriCount(n)) =>
          /\ \A k \in 0..(TriCount(n) - steps) :
                ip_deref(ip_advance(kind, n, it, k)) = ip_loc(steps + k)
          /\ \A a, b \in 1..MaxAdv :
                steps + a + b <= TriCount(n) =>
                    ip_advance(kind, n, ip_advance(kind, n, it, a), b) =
                    ip_advance(kind, n, it, a + b)
    /\ (CP /\ steps <= n1 * n2) =>
          /\ \A k \in 0..(n1 * n2 - steps) :
                cp_deref(cp_advance(cit, k)) = cp_loc(steps + k)
          /\ \A a, b \in 1..MaxAdv :
                steps + a + b <= n1 * n2 =>
                    ~cp_neq(cp_advance(cp_advance(cit, a), b),
                            cp_advance(cit, a + b))

C11_Witness ==
    /\ IP /\ algo = "advance" /\ n = 4 /\ steps = 3
    /\ last = <<"advance", 2>> /\ ip_deref(it) = <<1, 2>>

RECURSIVE SumSeq(_)
SumSeq(q) == IF q = <<>> THEN 0 ELSE Head(q) + SumSeq(Tail(q))

\* C12: the fold from begin() to end() that adds the second component of
\* every yielded pair terminates and returns n1 * (sum of sequence 2); every
\* element of sequence 2 is yielded exactly n1 times.
C12_Fold ==
    /\ [](pc = "done" =>
            /\ acc = n1 * SumSeq(vec2)
            /\ \A e \in 0..(n2 - 1) :
                  Cardinality({a \in DOMAIN yielded : yielded[a][2] = e}) = n1)
    /\ <>(pc = "done")

C12_Witness ==
    /\ CP /\ algo = "accumulate" /\ pc = "done"
    /\ vec1 = <<0, 1, 1>> /\ vec2 = <<1, 1>> /\ acc = 6

\* C13: position equality is reflexive, and two positions of the same
\* adaptor compare equal exactly when both locators are equal; positions
\* agreeing in only one locator compare unequal.
C13_Equality ==
    /\ IP => /\ ~ip_neq(it, it) /\ ~ip_neq(it2, it2)
             /\ \A a, b \in {it, it2, ip_begin(kind, n), ip_end(kind, n)} :
                   /\ ~ip_neq(a, b) <=> (a.i = b.i /\ a.j = b.j)
                   /\ ((a.i = b.i) # (a.j = b.j)) => ip_neq(a, b)
    /\ CP => /\ ~cp_neq(cit, cit) /\ ~cp_neq(cit2, cit2)
             /\ \A a, b \in {cit, cit2, prod._begin, prod._end} :
                   /\ ~cp_neq(a, b) <=> (a.pos1 = b.pos1 /\ a.pos2 = b.pos2)
                   /\ ((a.pos1 = b.pos1) # (a.pos2 = b.pos2)) => cp_neq(a, b)

C13_Witness ==
    /\ IP /\ algo = "advance" /\ n = 4
    /\ ip_deref(it) = <<1, 3>> /\ ip_deref(it2) = <<0, 3>>

\* C14: every call to begin() returns a position that compares equal to
\* the one the first call returned, whatever advances of held positions
\* came in between, and the call changes neither the adaptor's stored bounds
\* nor the wrapped sequences nor the other held position.
C14_BeginIdempotent ==
    [][last' = <<"begin">> =>
          /\ IP => ~ip_neq(it2', begin0.ip)
          /\ CP => ~cp_neq(cit2', begin0.cp)
          /\ prod' = prod /\ vec' = vec /\ kind' = kind
          /\ vec1' = vec1 /\ vec2' = vec2
          /\ it' = it /\ cit' = cit]_vars

C14_Witness ==
    /\ CP /\ n1 = 3 /\ n2 = 2 /\ last = <<"begin">>
    /\ steps = 4 /\ steps2 = 0 /\ cp_deref(cit2) = <<0, 0>>

\* C15: advancing one held position changes only that position's cursors:
\* the other held position, the adaptor's begin/end bounds and the wrapped
\* sequences are unchanged.
C15_Independent ==
    [][/\ (steps' # steps) =>
             /\ it2' = it2 /\ cit2' = cit2
             /\ it'._end = it._end
             /\ cit'.last1 = cit.last1 /\ cit'.first2 = cit.first2
             /\ cit'.last2 = cit.last2
       /\ (last' = <<"incr2">> /\ steps2' # steps2) =>
             /\ it' = it /\ cit' = cit
             /\ it2'._end = it2._end
             /\ cit2'.last1 = cit2.last1 /\ cit2'.first2 = cit2.first2
             /\ cit2'.last2 = cit2.last2
       /\ (steps' # steps \/ (last' = <<"incr2">> /\ steps2' # steps2)) =>
             /\ prod' = prod /\ kind' = kind
             /\ vec' = vec /\ vec1' = vec1 /\ vec2' = vec2]_vars

C15_Witness ==
    /\ CP /\ n1 = 3 /\ n2 = 2 /\ last = <<"incr2">>
    /\ steps = 2 /\ cp_deref(cit) = <<1, 0>>
    /\ steps2 = 3 /\ cp_deref(cit2) = <<1, 1>>

\* C16: every cartesian_product position reached by fewer than size()
\* advances has pos1 before last1 and pos2 before last2; pos1 = last1 or
\* pos2 = last2 holds only at the end sentinel.
C16_ProductDerefSafe ==
    CP => /\ steps < n1 * n2 =>
                /\ 0 <= cit.pos1 /\ cit.pos1 < cit.last1 /\ cit.last1 = n1
                /\ 0 <= cit.pos2 /\ cit.pos2 < cit.last2 /\ cit.last2 = n2
          /\ (cit.pos1 = cit.last1 \/ cit.pos2 = cit.last2) => cp_at_end
          /\ (cit2.pos1 = cit2.last1 \/ cit2.pos2 = cit2.last2) =>
                ~cp_neq(cit2, prod._end)

C16_Witness ==
    CP /\ n1 = 3 /\ n2 = 2 /\ steps = 5 /\ pc = "view" /\ view = <<2, 1>>

\* C17: the size()+1 positions reached by 0, 1, ..., size() unit advances
\* from begin() are pairwise unequal under the position comparison,
\* whatever the element values.
C17_Distinguishable ==
    /\ (IP /\ steps <= TriCount(n) /\ steps2 <= TriCount(n) /\ steps # steps2)
          => ip_neq(it, it2)
    /\ (IP /\ 0 < steps /\ steps <= TriCount(n)) => ip_neq(it, begin0.ip)
    /\ (CP /\ steps <= n1 * n2 /\ steps2 <= n1 * n2 /\ steps # steps2)
          => cp_neq(cit, cit2)
    /\ (CP /\ 0 < steps /\ steps <= n1 * n2) => cp_neq(cit, begin0.cp)

C17_Witness ==
    /\ IP /\ algo = "advance" /\ vec = <<0, 0, 0, 0>>
    /\ steps = 2 /\ ip_deref(it) = <<0, 3>>
    /\ steps2 = 4 /\ ip_deref(it2) = <<1, 3>>

\* C18: with a w-bit size_t, size() returns n(n-1)/2 for every length n
\* whose n(n-1)/2 is representable in w bits.
C18_NoWrap ==
    (IP /\ sz # <<>> /\ TriCount(n) < Pow2(SizeBits)) => sz[1] = TriCount(n)

====
